---- MODULE Spec2Model ----
(***************************************************************************)
(* Side navigation of the documentation site (src/pages/index.md).         *)
(*                                                                         *)
(* The module-level constant `items` is the navigation tree; SideNav()     *)
(* reads router.pathname and maps `items` to a <nav> of groups, list items *)
(* and anchors, marking a list item "active" when router.pathname === href. *)
(*                                                                         *)
(* Encoding of paths: a path string that starts with "/" is the sequence   *)
(* of the pieces obtained by splitting it on "/" after the leading slash:  *)
(*   "/docs/react"  is <<"docs", "react">>                                 *)
(*   "/docs/react/" is <<"docs", "react", "">>      (trailing slash)       *)
(*   "/"            is <<"">>                                              *)
(* The encoding is injective, so === on the strings is = on the sequences. *)
(***************************************************************************)
EXTENDS Integers, Sequences, FiniteSets, TLC

VARIABLES
    items,          \* the module-level array `items` (a JS array is mutable)
    pathname,       \* router.pathname, owned by the hosting router
    output,         \* what the last call of SideNav() returned (or threw)
    renderedPath,   \* the router.pathname that call read
    rerender,       \* how the last call of SideNav() compares with the call before it
    calloutCall,    \* the last call of Callout(): its props and the element returned
    topNavCall      \* the last call of TopNav(): its props and the element returned

vars == <<items, pathname, output, renderedPath, rerender, calloutCall, topNavCall>>

(***************************************************************************)
(* Bounds of the model: how many extra path pieces the router may append   *)
(* to a declared path (deeper segments "x", or a trailing slash "").       *)
(***************************************************************************)
MaxExtra == 1

\* how many nodes the content handed to Callout or TopNav may hold
MaxChildren == 2

ExtraSegments == {"", "x"}

(***************************************************************************)
(* The navigation tree, src/pages/index.md lines 32-63.                    *)
(***************************************************************************)
Es6Link ==
    [href |-> <<"docs", "code", "es6">>, children |-> "ES6 Tips", sub |-> <<
        [href |-> <<"docs", "code", "es6", "array">>, children |-> "Array"],
        [href |-> <<"docs", "code", "es6", "boolean">>, children |-> "Boolean"],
        [href |-> <<"docs", "code", "es6", "date">>, children |-> "Date"],
        [href |-> <<"docs", "code", "es6", "math">>, children |-> "Math"],
        [href |-> <<"docs", "code", "es6", "number">>, children |-> "Number"],
        [href |-> <<"docs", "code", "es6", "object">>, children |-> "Object"],
        [href |-> <<"docs", "code", "es6", "string">>, children |-> "String"],
        [href |-> <<"docs", "code", "es6", "misc">>, children |-> "Miscellaneous"]
    >>]

QualityLink ==
    [href |-> <<"docs", "code", "quality">>, children |-> "Code Quality", sub |-> <<
        [href |-> <<"docs", "code", "quality", "iterative-code">>, children |-> "Iterative Code"],
        [href |-> <<"docs", "code", "quality", "variable-naming">>, children |-> "Variable Naming"]
    >>]

\* A copy-paste slip: a sub-link of Typescript repeats a path of Code Quality.
TypescriptLinkDuplicate ==
    [href |-> <<"docs", "code", "typescript">>, children |-> "Typescript", sub |-> <<
        [href |-> <<"docs", "code", "quality", "iterative-code">>, children |-> "Utility Types"],
        [href |-> <<"docs", "code", "quality", "additional-resources">>, children |-> "Additional Resources"]
    >>]

TypescriptLink ==
    [href |-> <<"docs", "code", "typescript">>, children |-> "Typescript", sub |-> <<
        [href |-> <<"docs", "code", "quality", "utility-types">>, children |-> "Utility Types"],
        [href |-> <<"docs", "code", "quality", "additional-resources">>, children |-> "Additional Resources"]
    >>]

CodeSection ==
    [title |-> "Code", links |-> <<Es6Link, QualityLink, TypescriptLink>>]

\* a section copied from the one above with its title left unchanged
ReactSectionSameTitle ==
    [title |-> "Code", links |-> <<
        [href |-> <<"docs", "react">>, children |-> "Introduction"],
        [href |-> <<"docs", "react", "handling-state">>, children |-> "Handling State"]
    >>]

ReactSection ==
    [title |-> "React", links |-> <<
        [href |-> <<"docs", "react">>, children |-> "Introduction"],
        [href |-> <<"docs", "react", "handling-state">>, children |-> "Handling State"]
    >>]

ItemsLiteral == <<CodeSection, ReactSection>>

(***************************************************************************)
(* Positions in a navigation tree: <<g, l>> is link l of section g,        *)
(* <<g, l, s>> is sub-link s of that link.                                 *)
(***************************************************************************)
HasSub(link) == "sub" \in DOMAIN link

TopPositions(its) ==
    UNION {{<<g, l>> : l \in DOMAIN its[g].links} : g \in DOMAIN its}

SubPositions(its) ==
    UNION {IF HasSub(its[pos[1]].links[pos[2]])
           THEN {<<pos[1], pos[2], s>> : s \in DOMAIN its[pos[1]].links[pos[2]].sub}
           ELSE {} : pos \in TopPositions(its)}

LinkPositions(its) == TopPositions(its) \cup SubPositions(its)

LinkAt(its, pos) ==
    IF Len(pos) = 2 THEN its[pos[1]].links[pos[2]]
    ELSE its[pos[1]].links[pos[2]].sub[pos[3]]

DeclaredHrefs(its) == {LinkAt(its, pos).href : pos \in LinkPositions(its)}

(***************************************************************************)
(* The links in the body of the home page, src/pages/index.md lines 12-26. *)
(***************************************************************************)
\* a link whose target was shortened by hand
HomeLinksTypo ==
    { <<"docs", "code", "es6">>,
      <<"docs", "code", "quality">>,
      <<"docs", "code", "ts">>,
      <<"docs", "react">> }

\* {% link href="..." %} of the home page
HomeLinks ==
    { <<"docs", "code", "es6">>,
      <<"docs", "code", "quality">>,
      <<"docs", "code", "typescript">>,
      <<"docs", "react">> }

(***************************************************************************)
(* The route paths the router may report.                                  *)
(***************************************************************************)
\* routes of the page files under src/pages
PagePaths ==
    { <<"">>,
      <<"docs", "react">>,
      <<"docs", "react", "handling-state">>,
      <<"docs", "code", "quality">>,
      <<"docs", "code", "es6", "misc">>,
      <<"docs", "code", "es6", "boolean">>,
      <<"docs", "code", "es6", "object">>,
      <<"docs", "code", "es6", "number">>,
      <<"docs", "code", "typescript", "utility-types">> }

\* paths above the declared ones, for which no page and no link exists
ParentPaths == { <<"docs">>, <<"docs", "code">> }

\* k further pieces: deeper segments "x", the last one "x" or a trailing slash
Pieces(k, last) == [i \in 1..k |-> IF i = k THEN last ELSE "x"]

Extended(S, n) ==
    S \cup {p \o Pieces(k, last) : p \in S, k \in 1..n, last \in ExtraSegments}

RoutePaths ==
    Extended(DeclaredHrefs(ItemsLiteral), MaxExtra) \cup PagePaths \cup ParentPaths

(***************************************************************************)
(* SideNav(), src/pages/index.md lines 65-134.                             *)
(***************************************************************************)
NoOutput == [tag |-> "none"]

\* reading a property of undefined throws
TypeError == [throw |-> "TypeError"]

Throws(x) == "throw" \in DOMAIN x

IsPrefix(p, q) == Len(p) <= Len(q) /\ SubSeq(q, 1, Len(p)) = p

\* an anchor with a placeholder target left in
LinkHome(props) == [href |-> <<"">>, children |-> props.children]

\* <Link {...link} />: an anchor to href showing children
Link(props) == [href |-> props.href, children |-> props.children]

\* router.pathname.startsWith(link.href) instead of ===
activeStartsWith(path, link) == IsPrefix(link.href, path)

\* const active = router.pathname === link.href
active(path, link) == path = link.href

\* router.pathname.startsWith(sublink.href) instead of ===
subActiveStartsWith(path, sublink) == IsPrefix(sublink.href, path)

\* const subActive = router.pathname === sublink.href
subActive(path, sublink) == path = sublink.href

\* a sub-link item that always carries a nested <ul> of its own
RenderSublinkNested(path, sublink) ==
    [key |-> sublink.href,
     className |-> IF subActive(path, sublink) THEN "active" ELSE "",
     a |-> Link(sublink),
     ul |-> <<>>]

\* <li key={sublink.href} className={subActive ? 'active' : ''}>
RenderSublink(path, sublink) ==
    [key |-> sublink.href,
     className |-> IF subActive(path, sublink) THEN "active" ELSE "",
     a |-> Link(sublink)]

\* the nested <ul> shown only while the link or one of its sub-links is active
RenderLinkCollapsed(path, link) ==
    LET li == [key |-> link.href,
               className |-> IF active(path, link) THEN "active" ELSE "",
               a |-> Link(link)]
    IN  IF HasSub(link) /\ (active(path, link)
                             \/ \E s \in DOMAIN link.sub : subActive(path, link.sub[s]))
        THEN [key |-> li.key, className |-> li.className, a |-> li.a,
              ul |-> [s \in DOMAIN link.sub |-> RenderSublink(path, link.sub[s])]]
        ELSE li

\* <ul>{(link.sub || []).map(..)}</ul>: a nested list under every link
RenderLinkAlwaysList(path, link) ==
    [key |-> link.href,
     className |-> IF active(path, link) THEN "active" ELSE "",
     a |-> Link(link),
     ul |-> IF HasSub(link)
            THEN [s \in DOMAIN link.sub |-> RenderSublink(path, link.sub[s])]
            ELSE <<>>]

\* link.sub.map(..) without the `link.sub &&` guard
RenderLinkUnguarded(path, link) ==
    IF ~HasSub(link) THEN TypeError
    ELSE [key |-> link.href,
          className |-> IF active(path, link) THEN "active" ELSE "",
          a |-> Link(link),
          ul |-> [s \in DOMAIN link.sub |-> RenderSublink(path, link.sub[s])]]

\* <li key={link.href} className={active ? 'active' : ''}> with the anchor
\* and, when link.sub is set, a nested <ul> of the sub-links
RenderLink(path, link) ==
    LET li == [key |-> link.href,
               className |-> IF active(path, link) THEN "active" ELSE "",
               a |-> Link(link)]
    IN  IF HasSub(link)
        THEN [key |-> li.key, className |-> li.className, a |-> li.a,
              ul |-> [s \in DOMAIN link.sub |-> RenderSublink(path, link.sub[s])]]
        ELSE li

\* item.links.reverse().map(..) on a copy: the links come out last to first
RenderGroupReversed(path, item) ==
    IF "links" \notin DOMAIN item THEN TypeError
    ELSE LET lis == [l \in DOMAIN item.links |->
                        RenderLink(path, item.links[Len(item.links) + 1 - l])]
         IN  IF \E l \in DOMAIN lis : Throws(lis[l]) THEN TypeError
             ELSE [key |-> item.title, span |-> item.title, ul |-> lis]

\* <div key={item.title}> <span>{item.title}</span> <ul>{item.links.map(..)}</ul>
RenderGroup(path, item) ==
    IF "links" \notin DOMAIN item THEN TypeError
    ELSE LET lis == [l \in DOMAIN item.links |-> RenderLink(path, item.links[l])]
         IN  IF \E l \in DOMAIN lis : Throws(lis[l]) THEN TypeError
             ELSE [key |-> item.title, span |-> item.title, ul |-> lis]

\* <nav className="sidenav">{items.map(..)}</nav>
RenderNav(path, its) ==
    LET groups == [g \in DOMAIN its |-> RenderGroup(path, its[g])]
    IN  IF \E g \in DOMAIN groups : Throws(groups[g]) THEN TypeError
        ELSE [tag |-> "nav", groups |-> groups]

\* again: there was a call before the last one; samePath: both calls read
\* the same router.pathname; sameOutput: both calls returned the same value
Compare(prevOutput, prevPath, newOutput, newPath) ==
    [again |-> prevOutput # NoOutput,
     samePath |-> prevOutput # NoOutput /\ prevPath = newPath,
     sameOutput |-> prevOutput = newOutput]

Init ==
    /\ items = ItemsLiteral
    /\ pathname \in RoutePaths
    /\ output = NoOutput
    /\ renderedPath = <<>>
    /\ rerender = [again |-> FALSE, samePath |-> FALSE, sameOutput |-> FALSE]
    /\ calloutCall = NoOutput
    /\ topNavCall = NoOutput

\* the hosting router moves to another route
RouteChange(p) ==
    /\ p # pathname
    /\ pathname' = p
    /\ UNCHANGED <<items, output, renderedPath, rerender, calloutCall, topNavCall>>

\* the reader follows a link in the body of the home page
FollowHomeLink(h) ==
    /\ pathname = <<"">>
    /\ pathname' = h
    /\ UNCHANGED <<items, output, renderedPath, rerender, calloutCall, topNavCall>>

\* items.reverse().map(..): reverse() reverses the array in place
SideNavReversing ==
    /\ items' = [g \in DOMAIN items |-> items[Len(items) + 1 - g]]
    /\ output' = RenderNav(pathname, items')
    /\ renderedPath' = pathname
    /\ rerender' = Compare(output, renderedPath, output', pathname)
    /\ UNCHANGED <<pathname, calloutCall, topNavCall>>

\* link.sub = link.sub || [] before mapping: writes into the shared tree
SideNavNormalising ==
    /\ items' = [g \in DOMAIN items |->
                    [title |-> items[g].title,
                     links |-> [l \in DOMAIN items[g].links |->
                         IF HasSub(items[g].links[l]) THEN items[g].links[l]
                         ELSE [href |-> items[g].links[l].href,
                               children |-> items[g].links[l].children,
                               sub |-> <<>>]]]]
    /\ output' = RenderNav(pathname, items')
    /\ renderedPath' = pathname
    /\ rerender' = Compare(output, renderedPath, output', pathname)
    /\ UNCHANGED <<pathname, calloutCall, topNavCall>>

\* useMemo(() => <nav>..</nav>, []): the first result is kept for later calls
SideNavMemo ==
    /\ output' = IF output = NoOutput THEN RenderNav(pathname, items) ELSE output
    /\ renderedPath' = pathname
    /\ rerender' = Compare(output, renderedPath, output', pathname)
    /\ UNCHANGED <<items, pathname, calloutCall, topNavCall>>

\* React calls SideNav(): const router = useRouter(); return <nav>...</nav>
SideNav ==
    /\ output' = RenderNav(pathname, items)
    /\ renderedPath' = pathname
    /\ rerender' = Compare(output, renderedPath, output', pathname)
    /\ UNCHANGED <<items, pathname, calloutCall, topNavCall>>

Next ==
    \/ \E h \in HomeLinks : FollowHomeLink(h)
    \/ \E p \in RoutePaths : RouteChange(p)
    \/ SideNav

Spec == Init /\ [][Next]_vars

(***************************************************************************)
(* The presentational wrappers, src/components/Callout.tsx and TopNav.tsx. *)
(* Content (React children) is an opaque sequence of nodes.                *)
(***************************************************************************)
ChildNodes == {"Hits and tips on code style and conventions", "p", "a"}

Titles == {"Note", "Warning"}

Contents == UNION {[1..n -> ChildNodes] : n \in 0..MaxChildren}

\* the props a caller may pass to Callout: title is optional
CalloutProps ==
    {[children |-> c] : c \in Contents}
        \cup {[title |-> t, children |-> c] : t \in Titles, c \in Contents}

TopNavProps == {[children |-> c] : c \in Contents}

StyleJsx == [tag |-> "style", children |-> <<>>]

\* {title && <span>{children}</span>}: the content shown only under a title
CalloutTitled(props) ==
    [tag |-> "div", className |-> "callout", children |-> <<
        [tag |-> "strong",
         children |-> IF "title" \in DOMAIN props THEN <<props.title>> ELSE <<>>] >>
        \o (IF "title" \in DOMAIN props
            THEN << [tag |-> "span", children |-> props.children] >> ELSE <<>>)
        \o << StyleJsx >>]

\* <div className="callout"><strong>{title}</strong><span>{children}</span>
\* <style jsx>..</style></div>; an undefined title renders nothing
Callout(props) ==
    [tag |-> "div", className |-> "callout", children |-> <<
        [tag |-> "strong",
         children |-> IF "title" \in DOMAIN props THEN <<props.title>> ELSE <<>>],
        [tag |-> "span", children |-> props.children],
        StyleJsx >>]

\* <nav><img src=.. width="120" /><section>{children}</section>
\* <style jsx>..</style></nav>
TopNav(props) ==
    [tag |-> "nav", children |-> <<
        [tag |-> "img", src |-> "/images/ATG-Logo-Red-low-res.jpeg", children |-> <<>>],
        [tag |-> "section", children |-> props.children],
        StyleJsx >>]

\* the page is on the home route; nothing has been rendered
InitShell ==
    /\ items = ItemsLiteral
    /\ pathname = <<"">>
    /\ output = NoOutput
    /\ renderedPath = <<>>
    /\ rerender = [again |-> FALSE, samePath |-> FALSE, sameOutput |-> FALSE]
    /\ calloutCall = NoOutput
    /\ topNavCall = NoOutput

\* React calls Callout({title, children})
RenderCallout(props) ==
    /\ calloutCall' = [props |-> props, element |-> Callout(props)]
    /\ UNCHANGED <<items, pathname, output, renderedPath, rerender, topNavCall>>

\* React calls TopNav({children})
RenderTopNav(props) ==
    /\ topNavCall' = [props |-> props, element |-> TopNav(props)]
    /\ UNCHANGED <<items, pathname, output, renderedPath, rerender, calloutCall>>

NextShell ==
    \/ \E props \in CalloutProps : RenderCallout(props)
    \/ \E props \in TopNavProps : RenderTopNav(props)

SpecShell == InitShell /\ [][NextShell]_vars

(***************************************************************************)
(* Reading the rendered navigation.                                        *)
(***************************************************************************)
\* the last call of SideNav() returned a <nav>
Rendered == ~Throws(output) /\ output.tag = "nav"

OutTopPositions(nav) ==
    UNION {{<<g, l>> : l \in DOMAIN nav.groups[g].ul} : g \in DOMAIN nav.groups}

OutSubPositions(nav) ==
    UNION {IF "ul" \in DOMAIN nav.groups[pos[1]].ul[pos[2]]
           THEN {<<pos[1], pos[2], s>> : s \in DOMAIN nav.groups[pos[1]].ul[pos[2]].ul}
           ELSE {} : pos \in OutTopPositions(nav)}

OutPositions(nav) == OutTopPositions(nav) \cup OutSubPositions(nav)

\* the <li> at a position of the rendered navigation
LiAt(nav, pos) ==
    IF Len(pos) = 2 THEN nav.groups[pos[1]].ul[pos[2]]
    ELSE nav.groups[pos[1]].ul[pos[2]].ul[pos[3]]

ActivePositions(nav) == {pos \in OutPositions(nav) : LiAt(nav, pos).className = "active"}

(***************************************************************************)
(* C1: for every link L declared in items (top-level or sub-link, in any   *)
(* section), the render that read router.pathname = L.href marks the list  *)
(* item of L active and no other list item.                                *)
(***************************************************************************)
C1_ExactlyDeclaredLinkActive ==
    output # NoOutput =>
        \A pos \in LinkPositions(items) :
            LinkAt(items, pos).href = renderedPath =>
                /\ Rendered
                /\ pos \in OutPositions(output)
                /\ ActivePositions(output) = {pos}

C1_Witness ==
    /\ Rendered
    /\ renderedPath = <<"docs", "code", "quality">>
    /\ ActivePositions(output) = {<<1, 2>>}

(***************************************************************************)
(* C2: no two entries of items, top-level links and sub-links of all       *)
(* sections taken together, declare the same href.                         *)
(***************************************************************************)
C2_PathsUnique ==
    \A p1, p2 \in LinkPositions(items) :
        LinkAt(items, p1).href = LinkAt(items, p2).href => p1 = p2

C2_Witness ==
    /\ Rendered
    /\ Cardinality(LinkPositions(items)) = 17
    /\ Cardinality(DeclaredHrefs(items)) = 17

(***************************************************************************)
(* C3: for every route path read by a render, declared or not, and every   *)
(* rendered list item K, K is marked active if and only if the path equals *)
(* the href K was declared with; every other item has the empty class.     *)
(***************************************************************************)
C3_ActiveIffPathEqualsHref ==
    output # NoOutput =>
        /\ Rendered
        /\ \A pos \in OutPositions(output) :
              /\ pos \in LinkPositions(items)
              /\ LiAt(output, pos).className =
                    (IF renderedPath = LinkAt(items, pos).href THEN "active" ELSE "")

C3_Witness ==
    /\ Rendered
    /\ renderedPath = <<"docs", "code", "es6", "misc", "x">>
    /\ LiAt(output, <<1, 1, 8>>).className = ""
    /\ LiAt(output, <<1, 1>>).className = ""

(***************************************************************************)
(* C4: for every link that declares sub-links and every route path, all    *)
(* of its sub-links are in the rendered output, whether or not the link    *)
(* or one of its sub-links is active.                                      *)
(***************************************************************************)
C4_SubLinksAlwaysRendered ==
    output # NoOutput =>
        /\ Rendered
        /\ \A pos \in TopPositions(items) :
              HasSub(LinkAt(items, pos)) =>
                  /\ pos \in OutTopPositions(output)
                  /\ "ul" \in DOMAIN LiAt(output, pos)
                  /\ DOMAIN LiAt(output, pos).ul = DOMAIN LinkAt(items, pos).sub
                  /\ \A s \in DOMAIN LinkAt(items, pos).sub :
                        LiAt(output, pos).ul[s].a.href = LinkAt(items, pos).sub[s].href

C4_Witness ==
    /\ Rendered
    /\ renderedPath = <<"docs", "react">>
    /\ LiAt(output, <<1, 1>>).className = ""
    /\ Len(LiAt(output, <<1, 1>>).ul) = 8
    /\ \A s \in 1..8 : LiAt(output, <<1, 1, s>>).className = ""

(***************************************************************************)
(* C5: a call of SideNav() that reads the same route path as the call      *)
(* before it returns the same output as that call.                         *)
(***************************************************************************)
C5_RenderIdempotent == rerender.samePath => rerender.sameOutput

C5_Witness ==
    /\ Rendered
    /\ rerender.samePath
    /\ rerender.sameOutput
    /\ renderedPath = <<"docs", "code", "es6", "date">>
    /\ ActivePositions(output) = {<<1, 1, 3>>}

(***************************************************************************)
(* C6: with route path "/docs/react/handling-state" the item of the        *)
(* "Handling State" link is active and the item of the "Introduction"      *)
(* link (path "/docs/react") is not.                                       *)
(***************************************************************************)
C6_HandlingStateScenario ==
    (output # NoOutput /\ renderedPath = <<"docs", "react", "handling-state">>) =>
        /\ Rendered
        /\ \E pos \in OutPositions(output) : LiAt(output, pos).a.children = "Handling State"
        /\ \E pos \in OutPositions(output) : LiAt(output, pos).a.children = "Introduction"
        /\ \A pos \in OutPositions(output) :
              /\ LiAt(output, pos).a.children = "Handling State"
                    => LiAt(output, pos).className = "active"
              /\ LiAt(output, pos).a.children = "Introduction"
                    => /\ LiAt(output, pos).className # "active"
                       /\ LiAt(output, pos).a.href = <<"docs", "react">>

C6_Witness ==
    /\ Rendered
    /\ renderedPath = <<"docs", "react", "handling-state">>
    /\ LiAt(output, <<2, 2>>).className = "active"
    /\ LiAt(output, <<2, 1>>).className = ""

(***************************************************************************)
(* C7: after any sequence of renders over any sequence of route paths,     *)
(* items (sections, their order, every href, label and sub-links) equals   *)
(* the value it was built with.                                            *)
(***************************************************************************)
C7_ItemsNeverMutated == items = ItemsLiteral

C7_Witness ==
    /\ Rendered
    /\ rerender.again
    /\ ~rerender.samePath
    /\ pathname # renderedPath
    /\ items = ItemsLiteral

(***************************************************************************)
(* C8: no sub-link of items declares sub-links of its own, and no list     *)
(* item rendered for a sub-link carries a nested list.                     *)
(***************************************************************************)
C8_OneLevelOfNesting ==
    /\ \A pos \in SubPositions(items) : ~HasSub(LinkAt(items, pos))
    /\ output # NoOutput =>
          /\ Rendered
          /\ \A pos \in OutSubPositions(output) : "ul" \notin DOMAIN LiAt(output, pos)

C8_Witness ==
    /\ Rendered
    /\ renderedPath = <<"docs", "code", "quality", "utility-types">>
    /\ "ul" \in DOMAIN LiAt(output, <<1, 3>>)
    /\ LiAt(output, <<1, 3, 1>>).className = "active"
    /\ "ul" \notin DOMAIN LiAt(output, <<1, 3, 1>>)

(***************************************************************************)
(* C9: for every route path, also one that matches no declared link,       *)
(* SideNav() returns the whole navigation (every section, link and         *)
(* sub-link) and throws nothing; no item is active when the path is not    *)
(* declared.                                                               *)
(***************************************************************************)
C9_NoErrorOutcome ==
    output # NoOutput =>
        /\ ~Throws(output)
        /\ Rendered
        /\ DOMAIN output.groups = DOMAIN items
        /\ \A g \in DOMAIN items : output.groups[g].span = items[g].title
        /\ OutPositions(output) = LinkPositions(items)
        /\ renderedPath \notin DeclaredHrefs(items) => ActivePositions(output) = {}

C9_Witness ==
    /\ Rendered
    /\ renderedPath = <<"docs", "code", "typescript", "utility-types">>
    /\ renderedPath \notin DeclaredHrefs(items)
    /\ OutPositions(output) = LinkPositions(items)
    /\ ActivePositions(output) = {}

(***************************************************************************)
(* C10: the rendered navigation holds one anchor per declared link, 17 in  *)
(* all, each with the href and the label of its link; no anchor targets a  *)
(* path that items does not declare; the anchors do not depend on the      *)
(* route path.                                                             *)
(***************************************************************************)
C10_OneAnchorPerDeclaredLink ==
    output # NoOutput =>
        /\ Rendered
        /\ OutPositions(output) = LinkPositions(items)
        /\ Cardinality(OutPositions(output)) = 17
        /\ \A pos \in OutPositions(output) :
              /\ LiAt(output, pos).a.href = LinkAt(items, pos).href
              /\ LiAt(output, pos).a.children = LinkAt(items, pos).children
              /\ LiAt(output, pos).a.href \in DeclaredHrefs(ItemsLiteral)

C10_Witness ==
    /\ Rendered
    /\ renderedPath = <<"">>
    /\ Cardinality(OutPositions(output)) = 17
    /\ LiAt(output, <<1, 3, 2>>).a =
          [href |-> <<"docs", "code", "quality", "additional-resources">>,
           children |-> "Additional Resources"]

(***************************************************************************)
(* C11: Callout and TopNav are unconditional wrappers. For every content   *)
(* supplied, Callout returns the callout container holding the title       *)
(* element and then the content once, also when no title is given; TopNav  *)
(* returns its nav holding the logo and then a section with the content    *)
(* once. The content is neither dropped, duplicated nor reordered.         *)
(***************************************************************************)
\* the indices of the children of an element that hold the given content
Holding(element, content) ==
    {i \in DOMAIN element.children : element.children[i].children = content}

C11_WrappersKeepChildren ==
    /\ calloutCall # NoOutput =>
          LET el == calloutCall.element
              content == calloutCall.props.children
          IN  /\ el.tag = "div" /\ el.className = "callout"
              /\ Len(el.children) = 3
              /\ el.children[1].tag = "strong"
              /\ el.children[1].children =
                    (IF "title" \in DOMAIN calloutCall.props
                     THEN <<calloutCall.props.title>> ELSE <<>>)
              /\ el.children[2] = [tag |-> "span", children |-> content]
              /\ content # <<>> => Holding(el, content) = {2}
    /\ topNavCall # NoOutput =>
          LET el == topNavCall.element
              content == topNavCall.props.children
          IN  /\ el.tag = "nav"
              /\ Len(el.children) = 3
              /\ el.children[1].tag = "img"
              /\ el.children[2] = [tag |-> "section", children |-> content]
              /\ content # <<>> => Holding(el, content) = {2}

C11_Witness ==
    /\ calloutCall # NoOutput
    /\ "title" \notin DOMAIN calloutCall.props
    /\ calloutCall.props.children = <<"Hits and tips on code style and conventions">>
    /\ calloutCall.element.children[2].children =
          <<"Hits and tips on code style and conventions">>
    /\ topNavCall # NoOutput
    /\ topNavCall.props.children = <<"a", "p">>
    /\ topNavCall.element.children[2].children = <<"a", "p">>

(***************************************************************************)
(* C12: rendering uses no shared mutable resource. Whatever renders and    *)
(* route changes came before, in any interleaving, a render returns what   *)
(* the same render returns when it is the only one run, on the tree as     *)
(* built: its inputs are router.pathname and the constant items.           *)
(***************************************************************************)
C12_RenderAsIfAlone ==
    output # NoOutput => output = RenderNav(renderedPath, ItemsLiteral)

C12_Witness ==
    /\ Rendered
    /\ rerender.again
    /\ ~rerender.samePath
    /\ ~rerender.sameOutput
    /\ renderedPath = <<"docs", "code", "es6", "string">>
    /\ pathname = <<"docs", "code", "es6", "math">>
    /\ output = RenderNav(<<"docs", "code", "es6", "string">>, ItemsLiteral)

(***************************************************************************)
(* C13: the active marker does not pass between levels. When the route     *)
(* path is the path of a sub-link its parent link is not active; when it   *)
(* is the path of a parent link none of its sub-links is active; a route   *)
(* path that only extends a declared path (by a deeper segment or a        *)
(* trailing slash) and is not declared itself makes nothing active.        *)
(***************************************************************************)
C13_NoPropagationBetweenLevels ==
    output # NoOutput =>
        /\ Rendered
        /\ \A pos \in SubPositions(items) :
              LET parent == <<pos[1], pos[2]>>
              IN  /\ renderedPath = LinkAt(items, pos).href
                        => parent \notin ActivePositions(output)
                  /\ renderedPath = LinkAt(items, parent).href
                        => pos \notin ActivePositions(output)
        /\ (/\ renderedPath \notin DeclaredHrefs(items)
            /\ \E h \in DeclaredHrefs(items) : IsPrefix(h, renderedPath))
              => ActivePositions(output) = {}

C13_Witness ==
    /\ Rendered
    /\ renderedPath = <<"docs", "code", "es6", "array", "">>
    /\ ActivePositions(output) = {}
    /\ LiAt(output, <<1, 1, 1>>).a.href = <<"docs", "code", "es6", "array">>

(***************************************************************************)
(* C14: rendering keeps the declared order for every route path: the       *)
(* groups follow the sections of items, each showing its title once; the   *)
(* list items of a group follow the links of its section; the nested items *)
(* of a link follow its sub-links.                                         *)
(***************************************************************************)
C14_DeclarationOrderKept ==
    output # NoOutput =>
        /\ Rendered
        /\ DOMAIN output.groups = DOMAIN items
        /\ \A g \in DOMAIN items :
              /\ output.groups[g].key = items[g].title
              /\ output.groups[g].span = items[g].title
              /\ DOMAIN output.groups[g].ul = DOMAIN items[g].links
              /\ \A l \in DOMAIN items[g].links :
                    LET link == items[g].links[l]
                        li == output.groups[g].ul[l]
                    IN  /\ li.key = link.href
                        /\ li.a.children = link.children
                        /\ HasSub(link) =>
                              /\ "ul" \in DOMAIN li
                              /\ [s \in DOMAIN li.ul |-> li.ul[s].key]
                                    = [s \in DOMAIN link.sub |-> link.sub[s].href]

C14_Witness ==
    /\ Rendered
    /\ renderedPath = <<"docs", "code">>
    /\ [g \in DOMAIN output.groups |-> output.groups[g].span] = <<"Code", "React">>
    /\ [l \in DOMAIN output.groups[1].ul |-> output.groups[1].ul[l].a.children]
          = <<"ES6 Tips", "Code Quality", "Typescript">>
    /\ [s \in DOMAIN output.groups[1].ul[2].ul |-> output.groups[1].ul[2].ul[s].a.children]
          = <<"Iterative Code", "Variable Naming">>

(***************************************************************************)
(* C15: each sub-link is rendered inside the list item of the link that    *)
(* declares it and under no other link, and a link gets a nested list      *)
(* exactly when it declares sub-links (the links of the React section      *)
(* declare none and get none).                                             *)
(***************************************************************************)
C15_SubLinksUnderTheirParent ==
    output # NoOutput =>
        /\ Rendered
        /\ OutTopPositions(output) = TopPositions(items)
        /\ \A pos \in TopPositions(items) :
              /\ ("ul" \in DOMAIN LiAt(output, pos)) <=> HasSub(LinkAt(items, pos))
              /\ HasSub(LinkAt(items, pos)) =>
                    /\ LiAt(output, pos).a.href = LinkAt(items, pos).href
                    /\ [s \in DOMAIN LiAt(output, pos).ul |-> LiAt(output, pos).ul[s].a]
                          = [s \in DOMAIN LinkAt(items, pos).sub |->
                                Link(LinkAt(items, pos).sub[s])]
        /\ \A p1, p2 \in OutSubPositions(output) :
              LiAt(output, p1).a.href = LiAt(output, p2).a.href
                  => <<p1[1], p1[2]>> = <<p2[1], p2[2]>>

C15_Witness ==
    /\ Rendered
    /\ renderedPath = <<"docs", "react", "x">>
    /\ "ul" \notin DOMAIN LiAt(output, <<2, 1>>)
    /\ "ul" \notin DOMAIN LiAt(output, <<2, 2>>)
    /\ Len(LiAt(output, <<1, 2>>).ul) = 2
    /\ LiAt(output, <<1, 2>>).a.children = "Code Quality"
    /\ LiAt(output, <<1, 2, 1>>).a.children = "Iterative Code"

(***************************************************************************)
(* C16: what is active depends on the current route path only, not on the  *)
(* routes visited before. A render that follows any route changes returns  *)
(* what a first render at the path it reads returns; when the render       *)
(* before it read a different path A, the link of A is not active any more *)
(* and the link of the path now read is active if it is declared.          *)
(***************************************************************************)
C16_ActiveFollowsCurrentPath ==
    [][ (output' # output \/ renderedPath' # renderedPath) =>
            /\ output' = RenderNav(renderedPath', ItemsLiteral)
            /\ (output # NoOutput /\ renderedPath' # renderedPath) =>
                  \A pos \in LinkPositions(items') :
                      /\ LinkAt(items', pos).href = renderedPath
                            => pos \notin ActivePositions(output')
                      /\ LinkAt(items', pos).href = renderedPath'
                            => pos \in ActivePositions(output') ]_vars

C16_Witness ==
    /\ Rendered
    /\ rerender.again
    /\ ~rerender.samePath
    /\ ~rerender.sameOutput
    /\ renderedPath = <<"docs", "code", "typescript">>
    /\ ActivePositions(output) = {<<1, 3>>}
    /\ output = RenderNav(<<"docs", "code", "typescript">>, ItemsLiteral)

(***************************************************************************)
(* C17: for every route path at most one list item of the whole rendered   *)
(* navigation is active, and none is active exactly when the path is not   *)
(* declared in items.                                                      *)
(***************************************************************************)
C17_AtMostOneActive ==
    output # NoOutput =>
        /\ Rendered
        /\ Cardinality(ActivePositions(output)) <= 1
        /\ (ActivePositions(output) = {}) <=> (renderedPath \notin DeclaredHrefs(items))

C17_Witness ==
    /\ Rendered
    /\ renderedPath = <<"docs", "code", "quality", "additional-resources">>
    /\ Cardinality(ActivePositions(output)) = 1
    /\ LiAt(output, <<1, 3, 2>>).className = "active"

(***************************************************************************)
(* C18: the path of every sub-link lies under the path of its parent link: *)
(* for each link with sub-links, the href of each sub-link is the href of  *)
(* the link followed by "/" and one further path segment.                  *)
(***************************************************************************)
C18_SubPathsUnderParent ==
    \A pos \in SubPositions(items) :
        LET parent == LinkAt(items, <<pos[1], pos[2]>>).href
            href == LinkAt(items, pos).href
        IN  /\ Len(href) = Len(parent) + 1
            /\ SubSeq(href, 1, Len(parent)) = parent
            /\ href[Len(href)] # ""

(***************************************************************************)
(* C19: every link of the home page targets a path declared as a top-level *)
(* link of items, so on the page reached by following a home-page link     *)
(* exactly one top-level navigation link is active.                        *)
(***************************************************************************)
C19_HomeLinksAreTopLevel ==
    /\ \A h \in HomeLinks : \E pos \in TopPositions(items) : LinkAt(items, pos).href = h
    /\ (output # NoOutput /\ renderedPath \in HomeLinks) =>
          /\ Rendered
          /\ Cardinality(ActivePositions(output) \cap TopPositions(items)) = 1

C19_Witness ==
    /\ Rendered
    /\ renderedPath = <<"docs", "code", "es6">>
    /\ renderedPath \in HomeLinks
    /\ ActivePositions(output) = {<<1, 1>>}

(***************************************************************************)
(* C20: the list keys are unique within each rendered list: the section    *)
(* titles are pairwise distinct, the hrefs of the links of one section are *)
(* pairwise distinct, and the hrefs of the sub-links of one link are        *)
(* pairwise distinct.                                                      *)
(***************************************************************************)
IsInjective(f) == \A i, j \in DOMAIN f : f[i] = f[j] => i = j

KeysOf(lis) == [i \in DOMAIN lis |-> lis[i].key]

C20_ListKeysUnique ==
    /\ IsInjective([g \in DOMAIN items |-> items[g].title])
    /\ \A g \in DOMAIN items :
          IsInjective([l \in DOMAIN items[g].links |-> items[g].links[l].href])
    /\ \A pos \in TopPositions(items) :
          HasSub(LinkAt(items, pos)) =>
              IsInjective([s \in DOMAIN LinkAt(items, pos).sub |->
                              LinkAt(items, pos).sub[s].href])
    /\ output # NoOutput =>
          /\ Rendered
          /\ IsInjective(KeysOf(output.groups))
          /\ \A g \in DOMAIN output.groups : IsInjective(KeysOf(output.groups[g].ul))
          /\ \A pos \in OutTopPositions(output) :
                "ul" \in DOMAIN LiAt(output, pos) => IsInjective(KeysOf(LiAt(output, pos).ul))

C20_Witness ==
    /\ Rendered
    /\ renderedPath = <<"docs">>
    /\ KeysOf(output.groups) = <<"Code", "React">>
    /\ KeysOf(output.groups[2].ul) = << <<"docs", "react">>, <<"docs", "react", "handling-state">> >>
    /\ Len(KeysOf(LiAt(output, <<1, 1>>).ul)) = 8

====
